---- MODULE Spec2Model ----
(***************************************************************************)
(* Model of src/main.py: the "generalised dice" game.  A game is one run   *)
(* of main(): the arguments are parsed, the probability matrix is built,   *)
(* the first move is decided by a committed coin flip, each side picks a   *)
(* die, each side throws once, and the scores are compared.                *)
(*                                                                         *)
(* Strings (arguments, input lines, str(int)) are sequences of one-letter  *)
(* strings.  A probability is the integer number of ten-thousandths that   *)
(* round(x, 4) leaves (0.3333 is 3333).  Python list indices are 0-based;  *)
(* the sequences here are 1-based, so list[i] is seq[i + 1].  A variable   *)
(* that holds None in the program holds NoInt, NoSeq or "none" here.       *)
(***************************************************************************)
EXTENDS Integers, Sequences, FiniteSets, TLC

\* ---------------------------------------------------------------- bounds
\* Number of distinct secret keys token_bytes may return.
NumKeys == 2
\* Number of rejected input lines ('?', non-integer, out of range) per game.
MaxRejected == 2
\* Faces of the dice of the matrix specification are drawn from 1..MaxFace.
MaxFace == 2
\* generate_fair_random on its own is called with range_max in
\* -MaxRange..MaxRange.
MaxRange == 8

\* ------------------------------------------------------ program constants
Faces == 6
MinDice == 3
DiagonalConstant == 3333
Scale == 10000
FirstMoveRange == 1
ThrowRange == 5
ThrowModulus == 6

NoInt == -1
NoSeq == <<>>

\* ----------------------------------------------------------------- text
Digits == <<"0", "1", "2", "3", "4", "5", "6", "7", "8", "9">>

IsDigit(c) == \E d \in 1..10 : Digits[d] = c

DigitVal(c) == (CHOOSE d \in 1..10 : Digits[d] = c) - 1

RECURSIVE NatStr(_)
NatStr(n) ==
    IF n < 10 THEN <<Digits[n + 1]>>
    ELSE NatStr(n \div 10) \o <<Digits[(n % 10) + 1]>>

\* str(n) of an int.
Str(n) == IF n < 0 THEN <<"-">> \o NatStr(-n) ELSE NatStr(n)

RECURSIVE DigitsVal(_, _)
DigitsVal(s, acc) ==
    IF s = <<>> THEN acc
    ELSE DigitsVal(Tail(s), 10 * acc + DigitVal(Head(s)))

\* int(s): an optional sign followed by at least one digit; anything else
\* raises ValueError (ok = FALSE).
ParseInt(s) ==
    LET signed == s # <<>> /\ Head(s) \in {"-", "+"}
        body == IF signed THEN Tail(s) ELSE s
        ok == body # <<>> /\ \A k \in 1..Len(body) : IsDigit(body[k])
    IN  IF ~ok THEN [ok |-> FALSE, val |-> 0]
        ELSE [ok |-> TRUE,
              val |-> IF signed /\ Head(s) = "-" THEN 0 - DigitsVal(body, 0)
                      ELSE DigitsVal(body, 0)]

\* ------------------------------------------------------------ DiceParser
\* ParseDie without the check of the number of faces.
ParseDieAnyLength(arg) ==
    LET parsed == [k \in 1..Len(arg) |-> ParseInt(arg[k])]
    IN  IF \E k \in 1..Len(arg) : ~parsed[k].ok THEN [ok |-> FALSE, dice |-> <<>>]
        ELSE [ok |-> TRUE, dice |-> [k \in 1..Len(arg) |-> parsed[k].val]]

\* One argument after arg.split(','): the sequence of its fields.
ParseDie(arg) ==
    LET parsed == [k \in 1..Len(arg) |-> ParseInt(arg[k])]
    IN  IF \E k \in 1..Len(arg) : ~parsed[k].ok THEN [ok |-> FALSE, dice |-> <<>>]
        ELSE IF Len(arg) # Faces THEN [ok |-> FALSE, dice |-> <<>>]
        ELSE [ok |-> TRUE, dice |-> [k \in 1..Len(arg) |-> parsed[k].val]]

\* ParseDiceConfigurations that accepts any number of dice.
ParseDiceConfigurationsAnyCount(argv) ==
    IF \E a \in 1..Len(argv) : ~ParseDie(argv[a]).ok
    THEN [ok |-> FALSE, dice_configs |-> <<>>]
    ELSE [ok |-> TRUE,
          dice_configs |-> [a \in 1..Len(argv) |-> ParseDie(argv[a]).dice]]

\* DiceParser.parse_dice_configurations, lines 10-27
ParseDiceConfigurations(argv) ==
    IF Len(argv) < MinDice THEN [ok |-> FALSE, dice_configs |-> <<>>]
    ELSE IF \E a \in 1..Len(argv) : ~ParseDie(argv[a]).ok
         THEN [ok |-> FALSE, dice_configs |-> <<>>]
    ELSE [ok |-> TRUE,
          dice_configs |-> [a \in 1..Len(argv) |-> ParseDie(argv[a]).dice]]

\* --------------------------------------------------- FairRandomGenerator
\* secrets.token_bytes(32): one of the keys.
Keys == 1..NumKeys

\* hmac.new(key, msg, sha3_256).hexdigest(): a keyed function taken to be
\* injective in the pair (key, msg).
Hmac(key, msg) == <<key, msg>>

\* GenerateFairRandom with the digest taken over range_max.
GenerateFairRandomStale(range_max) ==
    IF range_max + 1 <= 0 THEN {}
    ELSE { <<v, Hmac(k, Str(range_max)), k>> : v \in 0..range_max, k \in Keys }

\* GenerateFairRandom with randbelow(range_max + 2).
GenerateFairRandomOneMore(range_max) ==
    IF range_max + 2 <= 0 THEN {}
    ELSE { <<v, Hmac(k, Str(v)), k>> : v \in 0..(range_max + 1), k \in Keys }

\* The triples (random_value, hmac_hex, secret_key) a call may return;
\* secrets.randbelow(n) raises for n <= 0, so no triple is returned then.
GenerateFairRandom(range_max) ==
    IF range_max + 1 <= 0 THEN {}
    ELSE { <<v, Hmac(k, Str(v)), k>> : v \in 0..range_max, k \in Keys }

\* ------------------------------------------------- ProbabilityCalculator
RECURSIVE CountWinsOrTies(_, _, _, _)
\* CountWins with x >= y for x > y.
CountWinsOrTies(dice1, dice2, i, j) ==
    IF i > Len(dice1) THEN 0
    ELSE IF j > Len(dice2) THEN CountWinsOrTies(dice1, dice2, i + 1, 1)
    ELSE (IF dice1[i] >= dice2[j] THEN 1 ELSE 0)
         + CountWinsOrTies(dice1, dice2, i, j + 1)

RECURSIVE CountWins(_, _, _, _)
\* sum(1 for x in dice1 for y in dice2 if x > y), as the generator runs:
\* x is dice1[i], y is dice2[j], j innermost.
CountWins(dice1, dice2, i, j) ==
    IF i > Len(dice1) THEN 0
    ELSE IF j > Len(dice2) THEN CountWins(dice1, dice2, i + 1, 1)
    ELSE (IF dice1[i] > dice2[j] THEN 1 ELSE 0)
         + CountWins(dice1, dice2, i, j + 1)

\* Round4 that cuts the digits after the fourth off.
Round4Truncate(n, d) == (n * Scale) \div d

\* round(n / d, 4) in ten-thousandths, ties to even.
Round4(n, d) ==
    LET q == (n * Scale) \div d
        r == (n * Scale) % d
    IN  IF 2 * r > d THEN q + 1
        ELSE IF 2 * r < d THEN q
        ELSE IF q % 2 = 0 THEN q ELSE q + 1

\* CalculatePairProbability with the two dice taken the other way round.
CalculatePairProbabilitySwapped(dice1, dice2) ==
    Round4(CountWins(dice2, dice1, 1, 1), Len(dice1) * Len(dice2))

CalculatePairProbability(dice1, dice2) ==
    LET wins == CountWins(dice1, dice2, 1, 1)
        total == Len(dice1) * Len(dice2)
    IN  Round4(wins, total)

\* CalculateWinProbabilities with the diagonal computed like any cell.
CalculateWinProbabilitiesComputedDiagonal(dice_configs) ==
    [i \in 1..Len(dice_configs) |->
        [j \in 1..Len(dice_configs) |->
            CalculatePairProbability(dice_configs[i], dice_configs[j])]]

CalculateWinProbabilities(dice_configs) ==
    [i \in 1..Len(dice_configs) |->
        [j \in 1..Len(dice_configs) |->
            IF i = j THEN DiagonalConstant
            ELSE CalculatePairProbability(dice_configs[i], dice_configs[j])]]

\* ---------------------------------------------------------------- inputs
DieA == <<1, 1, 2, 2, 3, 3>>
DieB == <<2, 2, 3, 3, 4, 4>>
DieC == <<3, 3, 4, 4, 5, 5>>
DieD == <<1, 1, 4, 4, 4, 4>>
DieE == <<2, 2, 2, 5, 5, 5>>
DieF == <<5, 5, 5, 5, 5, 5>>

\* The command-line argument of a die: its faces joined by commas.
ArgOf(die) == [k \in 1..Len(die) |-> Str(die[k])]

ArgvOf(dice) == [a \in 1..Len(dice) |-> ArgOf(dice[a])]

ValidArgv ==
    { ArgvOf(<<DieA, DieB, DieC>>),
      ArgvOf(<<DieD, DieE, DieF>>),
      ArgvOf(<<DieF, DieB, DieF, DieA>>) }

InvalidArgv ==
    { ArgvOf(<<DieC>>),
      ArgvOf(<<DieA, DieB>>),
      <<ArgOf(DieA), ArgOf(<<1, 2, 3, 4, 5>>), ArgOf(DieC)>>,
      <<ArgOf(DieA), ArgOf(DieB), <<<<"1">>, <<"x">>, <<"3">>, <<"4">>, <<"5">>, <<"6">>>>>> }

ArgvChoices == ValidArgv \cup InvalidArgv

\* The lines the user may type.
Inputs ==
    { <<"X">>, <<"?">>, <<"a">>, <<"-", "1">> } \cup { Str(n) : n \in 0..6 }

\* ----------------------------------------------------------------- state
VARIABLES
    pc,                 \* position of main() and of the function it is in
    argv,               \* sys.argv[1:]
    dices,              \* Game.dices (the list dice_configs itself)
    probability_matrix, \* Game.probability_matrix
    computer_score, user_score, computer_dice, user_dice, turn,
    computer_value, hmac_value, secret_key,   \* locals: the pending draw
    range_max,          \* argument of the latest generate_fair_random call
    user_value, result,                       \* locals: the user's number
    computer_index, user_index,               \* locals of select_dice
    plays,              \* completed calls of play_turn
    thrower,            \* whose branch of play_turn threw last
    out,                \* the digests, accepted lines, reveals and dice
                        \* printed or read so far, in order
    help_table,         \* the table display_help printed last
    rejected,           \* input lines rejected so far
    announcement        \* the line final_scores printed

game == <<dices, probability_matrix, computer_score, user_score,
          computer_dice, user_dice, turn>>
draw == <<computer_value, hmac_value, secret_key, range_max>>
locals == <<user_value, result, computer_index, user_index>>
vars == <<pc, argv, game, draw, locals, plays, thrower, out, help_table,
          rejected, announcement>>

Event(e, d) == [ev |-> e, draw |-> d]

EmptyTable == [field_names |-> <<>>, rows |-> <<>>]

\* Pop that removes the last entry whatever the index.
PopLast(list, index) == [k \in 1..(Len(list) - 1) |-> list[k]]

\* list.pop(index), index 0-based: the list left behind.
Pop(list, index) ==
    [k \in 1..(Len(list) - 1) |-> IF k <= index THEN list[k] ELSE list[k + 1]]

\* Game.display_help: the header and the rows handed to prettytable.
DisplayHelp(pool, matrix) ==
    [field_names |-> pool,
     rows |-> [i \in 1..Len(pool) |->
                 [label |-> pool[i],
                  cells |-> [j \in 1..Len(pool) |->
                               [diagonal |-> (i = j), value |-> matrix[i][j]]]]]]

InitCommon ==
    /\ probability_matrix = <<>>
    /\ computer_score = 0 /\ user_score = 0
    /\ computer_dice = NoSeq /\ user_dice = NoSeq
    /\ turn = "none"
    /\ computer_value = NoInt /\ hmac_value = NoSeq /\ secret_key = NoInt
    /\ user_value = NoInt /\ result = NoInt
    /\ computer_index = NoInt /\ user_index = NoInt
    /\ plays = 0
    /\ thrower = "none"
    /\ out = <<>>
    /\ help_table = EmptyTable
    /\ rejected = 0
    /\ announcement = "none"

Init ==
    /\ pc = "main"
    /\ argv \in ArgvChoices
    /\ dices = <<>>
    /\ range_max = NoInt
    /\ InitCommon

\* main, line 245: parse or fail with exit status 1.
Parse ==
    /\ pc = "main"
    /\ LET parsed == ParseDiceConfigurations(argv)
       IN  IF parsed.ok
           THEN /\ dices' = parsed.dice_configs
                /\ pc' = "parsed"
           ELSE /\ dices' = dices
                /\ pc' = "exit1"
    /\ UNCHANGED <<argv, probability_matrix, computer_score, user_score,
                   computer_dice, user_dice, turn, draw, locals, plays,
                   thrower, out, help_table, rejected, announcement>>

\* Game.__init__
NewGame ==
    /\ pc = "parsed"
    /\ probability_matrix' = CalculateWinProbabilities(dices)
    /\ computer_score' = 0 /\ user_score' = 0
    /\ computer_dice' = NoSeq /\ user_dice' = NoSeq
    /\ turn' = "none"
    /\ pc' = "determine_first_move"
    /\ UNCHANGED <<argv, dices, draw, locals, plays, thrower, out,
                   help_table, rejected, announcement>>

\* FirstMoveAnnounce that prints the value and the key with the digest.
FirstMoveAnnounceLeak == <<Event("hmac", "first"), Event("reveal", "first")>>

\* What determine_first_move prints before it reads: the digest only.
FirstMoveAnnounce == <<Event("hmac", "first")>>

\* determine_first_move, lines 77-85
DetermineFirstMove ==
    /\ pc = "determine_first_move"
    /\ range_max' = FirstMoveRange
    /\ \E t \in GenerateFairRandom(FirstMoveRange) :
          /\ computer_value' = t[1]
          /\ hmac_value' = t[2]
          /\ secret_key' = t[3]
    /\ out' = out \o FirstMoveAnnounce
    /\ user_value' = NoInt /\ result' = NoInt
    /\ computer_index' = NoInt /\ user_index' = NoInt
    /\ pc' = "first_input"
    /\ UNCHANGED <<argv, game, plays, thrower, help_table, rejected,
                   announcement>>

\* FirstMover with the two outcomes exchanged.
FirstMoverOdd(value, guess) == IF value = guess THEN "computer" ELSE "user"

\* The first mover: the user when the guess is the computer's value.
FirstMover(value, guess) == IF value = guess THEN "user" ELSE "computer"

\* Reject that draws the commitment again.
RejectRedraw(kind) ==
    /\ rejected < MaxRejected
    /\ rejected' = rejected + 1
    /\ help_table' = IF kind = "help"
                     THEN DisplayHelp(dices, probability_matrix)
                     ELSE help_table
    /\ \E t \in GenerateFairRandom(ThrowRange) :
          /\ computer_value' = t[1]
          /\ hmac_value' = t[2]
          /\ secret_key' = t[3]
    /\ UNCHANGED <<pc, argv, game, range_max, result, computer_index, plays,
                   thrower, out, announcement>>

\* An input line that is answered and asked again: '?' (the help table is
\* printed), a non-integer or a number outside the offered range (a message
\* is printed).  The local the line was converted into is the caller's.
Reject(kind) ==
    /\ rejected < MaxRejected
    /\ rejected' = rejected + 1
    /\ help_table' = IF kind = "help"
                     THEN DisplayHelp(dices, probability_matrix)
                     ELSE help_table
    /\ UNCHANGED <<pc, argv, game, draw, result, computer_index, plays,
                   thrower, out, announcement>>

\* Exit that prints the value and the key of the draw before it leaves.
ExitReveal(d) ==
    /\ pc' = "exit0"
    /\ out' = out \o <<Event("reveal", d), Event("exit", d)>>
    /\ UNCHANGED <<argv, game, draw, locals, plays, thrower, help_table,
                   rejected, announcement>>

\* sys.exit(0) on 'X'
Exit(d) ==
    /\ pc' = "exit0"
    /\ out' = Append(out, Event("exit", d))
    /\ UNCHANGED <<argv, game, draw, locals, plays, thrower, help_table,
                   rejected, announcement>>

\* determine_first_move, one pass of the loop of lines 87-109
FirstMoveInput ==
    /\ pc = "first_input"
    /\ \E line \in Inputs :
        LET parsed == ParseInt(line)
        IN  IF line = <<"X">> THEN Exit("first")
            ELSE IF line = <<"?">>
                 THEN Reject("help") /\ UNCHANGED <<user_value, user_index>>
            ELSE IF ~parsed.ok
                 THEN Reject("invalid") /\ UNCHANGED <<user_value, user_index>>
            ELSE IF parsed.val \notin {0, 1}
                 THEN /\ Reject("range")
                      /\ user_value' = parsed.val
                      /\ UNCHANGED user_index
            ELSE /\ user_value' = parsed.val
                 /\ out' = out \o <<Event("accepted", "first"),
                                    Event("reveal", "first")>>
                 /\ turn' = FirstMover(computer_value, parsed.val)
                 /\ pc' = "select_dice"
                 /\ UNCHANGED <<argv, dices, probability_matrix,
                                computer_score, user_score, computer_dice,
                                user_dice, draw, result, computer_index,
                                user_index, plays, thrower, help_table,
                                rejected, announcement>>

\* What select_dice prints when the computer has taken its die.
PickAnnounce == <<Event("computer_dice", "pick")>>

\* select_dice, lines 113-123 (computer first) and 146-150 (user first).
\* A ValueError of generate_fair_random at line 114 ends main with status 1.
SelectDice ==
    /\ pc = "select_dice"
    /\ computer_value' = NoInt /\ hmac_value' = NoSeq /\ secret_key' = NoInt
    /\ user_value' = NoInt /\ result' = NoInt /\ user_index' = NoInt
    /\ IF turn = "computer"
       THEN /\ range_max' = Len(dices) - 1
            /\ IF GenerateFairRandom(Len(dices) - 1) = {}
               THEN /\ pc' = "exit1"
                    /\ computer_index' = NoInt
                    /\ UNCHANGED <<computer_dice, dices, out>>
               ELSE \E t \in GenerateFairRandom(Len(dices) - 1) :
                       /\ computer_index' = t[1]
                       /\ computer_dice' = dices[t[1] + 1]
                       /\ dices' = Pop(dices, t[1])
                       /\ out' = out \o PickAnnounce
                       /\ pc' = "select_input"
       ELSE /\ computer_index' = NoInt
            /\ pc' = "select_input"
            /\ UNCHANGED <<range_max, computer_dice, dices, out>>
    /\ UNCHANGED <<argv, probability_matrix, computer_score, user_score,
                   user_dice, turn, plays, thrower, help_table, rejected,
                   announcement>>

\* select_dice, one pass of the loop of lines 125-142 (computer first) or
\* of lines 152-173 (user first).  A ValueError of generate_fair_random at
\* line 167 is caught at line 172: the user's die stays popped and the
\* prompt is asked again.
SelectDiceInput ==
    /\ pc = "select_input"
    /\ \E line \in Inputs :
        LET parsed == ParseInt(line)
        IN  IF line = <<"X">> THEN Exit("pick")
            ELSE IF line = <<"?">>
                 THEN Reject("help") /\ UNCHANGED <<user_value, user_index>>
            ELSE IF ~parsed.ok
                 THEN Reject("invalid") /\ UNCHANGED <<user_value, user_index>>
            ELSE IF ~(0 <= parsed.val /\ parsed.val < Len(dices))
                 THEN /\ Reject("range")
                      /\ user_index' = parsed.val
                      /\ UNCHANGED user_value
            ELSE IF turn = "computer"
            THEN /\ user_index' = parsed.val
                 /\ user_dice' = dices[parsed.val + 1]
                 /\ out' = out \o <<Event("accepted", "pick"),
                                    Event("user_dice", "pick")>>
                 /\ pc' = "play_turn"
                 /\ UNCHANGED <<argv, dices, probability_matrix,
                                computer_score, user_score, computer_dice,
                                turn, draw, user_value, result,
                                computer_index, plays, thrower, help_table,
                                rejected, announcement>>
            ELSE /\ user_index' = parsed.val
                 /\ user_dice' = dices[parsed.val + 1]
                 /\ range_max' = Len(dices) - 2
                 /\ IF GenerateFairRandom(Len(dices) - 2) = {}
                    THEN /\ dices' = Pop(dices, parsed.val)
                         /\ out' = out \o <<Event("accepted", "pick"),
                                            Event("user_dice", "pick")>>
                         /\ UNCHANGED <<pc, computer_index, computer_dice>>
                    ELSE \E t \in GenerateFairRandom(Len(dices) - 2) :
                         /\ computer_index' = t[1]
                         /\ computer_dice' = Pop(dices, parsed.val)[t[1] + 1]
                         /\ dices' = Pop(Pop(dices, parsed.val), t[1])
                         /\ out' = out \o <<Event("accepted", "pick"),
                                            Event("user_dice", "pick")>>
                                      \o PickAnnounce
                         /\ pc' = "play_turn"
                 /\ UNCHANGED <<argv, probability_matrix, computer_score,
                                user_score, turn, computer_value, hmac_value,
                                secret_key, user_value, result, plays,
                                thrower, help_table, rejected, announcement>>

\* The name of the draw of the call of play_turn under way.
Throw == IF plays = 0 THEN "throw1" ELSE "throw2"

\* PlayTurnAnnounce that publishes the digests of both throws at once.
PlayTurnAnnounceBoth(d) == <<Event("hmac", "throw1"), Event("hmac", "throw2")>>

\* What play_turn prints before it reads: the digest only.
PlayTurnAnnounce(d) == <<Event("hmac", d)>>

\* play_turn, lines 176-187
PlayTurn ==
    /\ pc = "play_turn"
    /\ range_max' = ThrowRange
    /\ \E t \in GenerateFairRandom(ThrowRange) :
          /\ computer_value' = t[1]
          /\ hmac_value' = t[2]
          /\ secret_key' = t[3]
    /\ out' = out \o PlayTurnAnnounce(Throw)
    /\ user_value' = NoInt /\ result' = NoInt
    /\ computer_index' = NoInt /\ user_index' = NoInt
    /\ pc' = "play_input"
    /\ UNCHANGED <<argv, game, plays, thrower, help_table, rejected,
                   announcement>>

\* ThrowResult reduced modulo the largest number instead of the modulus.
ThrowResultModRange(value, number) == (value + number) % ThrowRange

\* play_turn, line 204
ThrowResult(value, number) == (value + number) % ThrowModulus

\* ThrowingSide with the two branches exchanged.
ThrowingSideOther(t) == IF t = "computer" THEN "user" ELSE "computer"

\* ThrowingSide that throws the computer's die whoever holds the turn.
ThrowingSideComputer(t) == "computer"

\* play_turn, line 209: whose die is thrown.
ThrowingSide(t) == IF t = "computer" THEN "computer" ELSE "user"

\* play_turn, one pass of the loop of lines 189-220
PlayTurnInput ==
    /\ pc = "play_input"
    /\ \E line \in Inputs :
        LET parsed == ParseInt(line)
            res == ThrowResult(computer_value, parsed.val)
        IN  IF line = <<"X">> THEN Exit(Throw)
            ELSE IF line = <<"?">>
                 THEN Reject("help") /\ UNCHANGED <<user_value, user_index>>
            ELSE IF ~parsed.ok
                 THEN Reject("invalid") /\ UNCHANGED <<user_value, user_index>>
            ELSE IF parsed.val \notin 0..(ThrowModulus - 1)
                 THEN /\ Reject("range")
                      /\ user_value' = parsed.val
                      /\ UNCHANGED user_index
            ELSE /\ user_value' = parsed.val
                 /\ result' = res
                 /\ out' = out \o <<Event("accepted", Throw),
                                    Event("reveal", Throw)>>
                 /\ thrower' = ThrowingSide(turn)
                 /\ IF ThrowingSide(turn) = "computer"
                    THEN /\ computer_score' = computer_dice[res + 1]
                         /\ turn' = "user"
                         /\ UNCHANGED user_score
                    ELSE /\ user_score' = user_dice[res + 1]
                         /\ turn' = "computer"
                         /\ UNCHANGED computer_score
                 /\ plays' = plays + 1
                 /\ pc' = IF plays = 0 THEN "play_turn" ELSE "final_scores"
                 /\ UNCHANGED <<argv, dices, probability_matrix,
                                computer_dice, user_dice, draw,
                                computer_index, user_index, help_table,
                                rejected, announcement>>

\* Announce that gives an equal score to the computer.
AnnounceGreaterOrEqual(cscore, uscore) ==
    IF cscore >= uscore THEN "I win"
    ELSE IF uscore > cscore THEN "You win"
    ELSE "tie"

\* final_scores, lines 223-228: the line printed.
Announce(cscore, uscore) ==
    IF cscore > uscore THEN "I win"
    ELSE IF uscore > cscore THEN "You win"
    ELSE "tie"

FinalScores ==
    /\ pc = "final_scores"
    /\ announcement' = Announce(computer_score, user_score)
    /\ pc' = "done"
    /\ UNCHANGED <<argv, game, draw, locals, plays, thrower, out,
                   help_table, rejected>>

Next ==
    \/ Parse
    \/ NewGame
    \/ DetermineFirstMove
    \/ FirstMoveInput
    \/ SelectDice
    \/ SelectDiceInput
    \/ PlayTurn
    \/ PlayTurnInput
    \/ FinalScores

Spec == Init /\ [][Next]_vars

\* ------------------------------------------------- the matrix on its own
\* ProbabilityCalculator.calculate_win_probabilities called on pairs of
\* dice with faces in 1..MaxFace: the first die is any such die, the second
\* any die with its faces in nondecreasing order, so every die in any face
\* order meets every multiset of faces, as dice1 and as dice2.
AllDice == [1..Faces -> 1..MaxFace]

SortedDice == { d \in AllDice : \A k \in 1..(Faces - 1) : d[k] <= d[k + 1] }

MatrixDice == { <<d1, d2>> : d1 \in AllDice, d2 \in SortedDice }

InitMatrix ==
    /\ pc = "calculate"
    /\ argv = <<>>
    /\ dices \in MatrixDice
    /\ range_max = NoInt
    /\ InitCommon

CalculateMatrix ==
    /\ pc = "calculate"
    /\ probability_matrix' = CalculateWinProbabilities(dices)
    /\ pc' = "calculated"
    /\ UNCHANGED <<argv, dices, computer_score, user_score, computer_dice,
                   user_dice, turn, draw, locals, plays, thrower, out,
                   help_table, rejected, announcement>>

NextMatrix == CalculateMatrix

SpecMatrix == InitMatrix /\ [][NextMatrix]_vars

\* ------------------------------------------------- the draw on its own
\* FairRandomGenerator.generate_fair_random called with every range_max in
\* -MaxRange..MaxRange: it returns a triple or raises ValueError.
InitDraw ==
    /\ pc = "generate"
    /\ argv = <<>>
    /\ dices = <<>>
    /\ range_max \in (0 - MaxRange)..MaxRange
    /\ InitCommon

GenerateDraw ==
    /\ pc = "generate"
    /\ IF GenerateFairRandom(range_max) = {}
       THEN /\ pc' = "raised"
            /\ UNCHANGED <<computer_value, hmac_value, secret_key>>
       ELSE /\ pc' = "generated"
            /\ \E t \in GenerateFairRandom(range_max) :
                  /\ computer_value' = t[1]
                  /\ hmac_value' = t[2]
                  /\ secret_key' = t[3]
    /\ UNCHANGED <<argv, game, range_max, locals, plays, thrower, out,
                   help_table, rejected, announcement>>

NextDraw == GenerateDraw

SpecDraw == InitDraw /\ [][NextDraw]_vars

\* ------------------------------------------------------------ properties
\* The ordered face pairs (a, b), a position of die1 and b of die2, that
\* die1 wins, and those that tie.
WinPairs(die1, die2) ==
    { p \in (1..Len(die1)) \X (1..Len(die2)) : die1[p[1]] > die2[p[2]] }

TiePairs(die1, die2) ==
    { p \in (1..Len(die1)) \X (1..Len(die2)) : die1[p[1]] = die2[p[2]] }

SharesFace(die1, die2) ==
    \E a \in 1..Len(die1) : \E b \in 1..Len(die2) : die1[a] = die2[b]

\* c is n / d to 4 decimal places: the ten-thousandth nearest to n / d.
IsRounded(c, n, d) == 2 * (c * d - n * Scale) <= d /\ 2 * (n * Scale - c * d) <= d

MatrixBuilt == pc = "calculated"

\* C7: for every list of 6-face dice and all i # j, the cell [i][j] is the
\* number of ordered face pairs (a, b), a of dice[i] and b of dice[j], with
\* a strictly greater than b (ties for neither side, duplicate faces counted
\* with multiplicity), divided by 36 and kept to 4 decimal places, and the
\* matrix is square with one row and one column per die in input order.
C7_CellIsWinFraction ==
    MatrixBuilt =>
        /\ Len(probability_matrix) = Len(dices)
        /\ \A i \in 1..Len(dices) :
            /\ Len(probability_matrix[i]) = Len(dices)
            /\ \A j \in 1..Len(dices) :
                 i # j => IsRounded(probability_matrix[i][j],
                                    Cardinality(WinPairs(dices[i], dices[j])),
                                    Faces * Faces)

\* A die with duplicate faces met a die it ties with and partly beats.
C7_Witness ==
    /\ MatrixBuilt
    /\ \E i, j \in 1..Len(dices) :
         /\ i # j
         /\ SharesFace(dices[i], dices[j])
         /\ Cardinality(WinPairs(dices[i], dices[j])) = 8
         /\ probability_matrix[i][j] = 2222

\* C8: every diagonal cell is the constant 0.3333 whatever the faces of
\* the die, a die of six identical faces included.
C8_DiagonalConstant ==
    MatrixBuilt =>
        \A i \in 1..Len(dices) : probability_matrix[i][i] = 3333

\* A die of six identical faces, which never beats itself, has 0.3333.
C8_Witness ==
    /\ MatrixBuilt
    /\ \E i \in 1..Len(dices) :
         /\ \A k \in 1..Faces : dices[i][k] = dices[i][1]
         /\ WinPairs(dices[i], dices[i]) = {}
         /\ probability_matrix[i][i] = 3333

\* C9: for distinct dice A and B of the input, wins(A,B) + wins(B,A) +
\* ties(A,B) = 36, so the two cells add up to 1 - ties(A,B) / 36 within the
\* rounding of the two cells (half a ten-thousandth each), and they add up
\* to less than 1 exactly when the dice share a face value.
C9_WinsLossesTies ==
    MatrixBuilt =>
        \A i, j \in 1..Len(dices) :
            i # j =>
              LET ties == Cardinality(TiePairs(dices[i], dices[j]))
                  sum == probability_matrix[i][j] + probability_matrix[j][i]
              IN  /\ CountWins(dices[i], dices[j], 1, 1)
                       + CountWins(dices[j], dices[i], 1, 1) + ties
                     = Faces * Faces
                  /\ (Faces * Faces) * sum - Scale * (Faces * Faces - ties)
                       \in (0 - Faces * Faces)..(Faces * Faces)
                  /\ (sum < Scale) <=> SharesFace(dices[i], dices[j])

\* Two dice that tie on some pairs: the two cells add up to less than 1.
C9_Witness ==
    /\ MatrixBuilt
    /\ \E i, j \in 1..Len(dices) :
         /\ i # j
         /\ Cardinality(TiePairs(dices[i], dices[j])) = 20
         /\ probability_matrix[i][j] + probability_matrix[j][i] = 4444

\* ---------------------------------------------------- the game's draws
CommittedDraws == {"first", "throw1", "throw2"}

InputEvents == {"accepted", "exit"}

\* The draw whose input is being read.
DrawRead == IF pc = "first_input" THEN "first" ELSE Throw

Published(d, before) == \E j \in 1..(before - 1) : out[j] = Event("hmac", d)

\* C1: in determine_first_move and in every play_turn the digest is printed
\* before any input of that draw is read, and the value and the key are
\* printed only after an accepted in-range value of the user for that draw:
\* while lines of the draw are read (and '?', numbers out of range and
\* non-integers are rejected) the digest is out and the value and key are
\* not.
C1_DigestBeforeInputBeforeReveal ==
    /\ pc \in {"first_input", "play_input"} =>
         /\ \E j \in 1..Len(out) : out[j] = Event("hmac", DrawRead)
         /\ \A j \in 1..Len(out) :
              out[j].draw = DrawRead => out[j].ev \notin {"reveal", "accepted"}
    /\ \A i \in 1..Len(out) :
         out[i].draw \in CommittedDraws =>
           /\ out[i].ev \in InputEvents => Published(out[i].draw, i)
           /\ out[i].ev = "reveal" =>
                \E k \in 1..(i - 1) :
                   /\ out[k] = Event("accepted", out[i].draw)
                   /\ Published(out[i].draw, k)
    /\ (pc \in {"select_dice", "play_turn", "final_scores"}
          /\ out[Len(out)].ev = "reveal") =>
          user_value \in 0..(IF out[Len(out)].draw = "first"
                             THEN FirstMoveRange ELSE ThrowRange)

\* The first draw was revealed after a line of it had been rejected.
C1_Witness ==
    /\ pc = "select_dice"
    /\ rejected > 0
    /\ \E i, k \in 1..Len(out) :
         /\ i < k
         /\ out[i] = Event("hmac", "first")
         /\ out[k] = Event("reveal", "first")

\* C2: every fair draw, the computer's dice pick in select_dice included,
\* has its digest published before the drawn value is announced and takes
\* effect on the pool.
C2_PickDigestPublished ==
    \A i \in 1..Len(out) :
       out[i].ev = "computer_dice" => Published("pick", i)

\* C3: in play_turn the result is (computer_value + user_value) mod 6 for
\* computer_value and the accepted user_value in 0..5, it lies in 0..5, and
\* the recorded throw is the face at index result of the die of the player
\* whose turn it is.
C3_ThrowIsFaceAtModularSum ==
    [][(pc = "play_input" /\ pc' \in {"play_turn", "final_scores"}) =>
         /\ computer_value \in 0..5
         /\ user_value' \in 0..5
         /\ result' \in 0..5
         /\ computer_value + user_value' - result' \in {0, 6}
         /\ turn = "computer" => computer_score' = computer_dice[result' + 1]
         /\ turn # "computer" => user_score' = user_dice[result' + 1]]_vars

\* The computer threw with a sum that wrapped around.
C3_Witness ==
    /\ pc = "final_scores"
    /\ thrower = "computer"
    /\ computer_value + user_value >= ThrowModulus
    /\ computer_score = computer_dice[result + 1]

\* C4: for the fixed computer_value of a draw the user's numbers give every
\* result exactly once, and for the fixed number the user gave the
\* computer's values do: for the throws (range_max 5) the results are the
\* residues 0..5, for the first move (range_max 1) the two movers.
C4_CombinationIsPermutation ==
    /\ pc = "play_input" =>
         \A r \in 0..ThrowRange :
            Cardinality({ b \in 0..ThrowRange :
                             ThrowResult(computer_value, b) = r }) = 1
    /\ (pc \in {"play_turn", "final_scores"} /\ plays > 0) =>
         /\ result \in 0..ThrowRange
         /\ \A r \in 0..ThrowRange :
              Cardinality({ a \in 0..ThrowRange :
                               ThrowResult(a, user_value) = r }) = 1
    /\ pc = "first_input" =>
         \A m \in {"user", "computer"} :
            Cardinality({ b \in 0..FirstMoveRange :
                             FirstMover(computer_value, b) = m }) = 1
    /\ pc = "select_dice" =>
         \A m \in {"user", "computer"} :
            Cardinality({ a \in 0..FirstMoveRange :
                             FirstMover(a, user_value) = m }) = 1

\* A throw whose result is below the user's number: the sum wrapped.
C4_Witness ==
    /\ pc = "play_turn"
    /\ plays = 1
    /\ result # NoInt
    /\ result < user_value

\* C5: the digest of a draw is HMAC(key, str(value)) of the value and the
\* key of that draw, and of no other value in range or other key; so it is
\* for the triple the game holds from the digest's publication to the
\* reveal, and for every triple the dice pick may draw.
C5_CommitmentBinds ==
    /\ hmac_value # NoSeq =>
         /\ Hmac(secret_key, Str(computer_value)) = hmac_value
         /\ \A v \in 0..ThrowRange : \A k \in Keys :
              (v # computer_value \/ k # secret_key)
                 => Hmac(k, Str(v)) # hmac_value
    /\ pc = "select_dice" =>
         \A t \in GenerateFairRandom(Len(dices) - 1) :
            \A v \in 0..(Len(dices) - 1) : \A k \in Keys :
               (Hmac(k, Str(v)) = t[2]) <=> (v = t[1] /\ k = t[3])

\* The value and the key of the first draw have just been printed.
C5_Witness ==
    /\ pc = "select_dice"
    /\ out[Len(out)] = Event("reveal", "first")
    /\ secret_key = NumKeys
    /\ hmac_value = Hmac(secret_key, Str(computer_value))

\* The dice A, B, C of the scenario, in that order.
ScenarioGame ==
    /\ argv = ArgvOf(<<DieA, DieB, DieC>>)
    /\ probability_matrix # <<>>

\* C6 as stated: matrix[A][B], matrix[B][C] and matrix[A][C] are 0.4444.
C6_Original ==
    ScenarioGame =>
        /\ probability_matrix[1][2] = 4444
        /\ probability_matrix[2][3] = 4444
        /\ probability_matrix[1][3] = 4444

\* C6: for A=1,1,2,2,3,3, B=2,2,3,3,4,4, C=3,3,4,4,5,5 in that order,
\* matrix[A][B] and matrix[B][C] are 0.1111 (4 winning pairs of 36) and
\* matrix[A][C] is 0.0 (no winning pair).
C6_ScenarioCells ==
    ScenarioGame =>
        /\ probability_matrix[1][2] = 1111
        /\ probability_matrix[2][3] = 1111
        /\ probability_matrix[1][3] = 0

\* The matrix of the scenario is built and the game is over.
C6_Witness ==
    /\ ScenarioGame
    /\ Cardinality(WinPairs(DieA, DieB)) = 4
    /\ pc = "done"

\* C10: whenever the help table is shown, the cell of row die X and column
\* die Y is the win probability of X over Y, and the cell marked as the
\* diagonal is that of a die against itself.
C10_HelpTableIsOfItsLabels ==
    \A i \in 1..Len(help_table.rows) :
       \A j \in 1..Len(help_table.field_names) :
          LET cell == help_table.rows[i].cells[j]
              X == help_table.rows[i].label
              Y == help_table.field_names[j]
          IN  IF cell.diagonal
              THEN X = Y /\ cell.value = DiagonalConstant
              ELSE IsRounded(cell.value, Cardinality(WinPairs(X, Y)),
                             Faces * Faces)

\* ------------------------------------------------------ the orchestration
\* The decimal texts of the integers a face of the inputs may be.
IntegerTexts == { Str(n) : n \in (0 - 9)..99 }

\* Fewer than 3 dice, a die without exactly 6 faces, or a face that is not
\* an integer.
BadArgv ==
    \/ Len(argv) < 3
    \/ \E a \in 1..Len(argv) :
          \/ Len(argv[a]) # 6
          \/ \E k \in 1..Len(argv[a]) : argv[a][k] \notin IntegerTexts

\* C11: with fewer than 3 dice, a die of other than 6 faces or a face that
\* is not an integer, parse_dice_configurations raises and main ends with
\* failure: the matrix is never computed, no draw is generated and no
\* digest is published; and main fails at the parse on no other input.
C11_ValidationPrecedesCore ==
    /\ BadArgv =>
         /\ pc \in {"main", "exit1"}
         /\ dices = <<>>
         /\ probability_matrix = <<>>
         /\ out = <<>>
         /\ range_max = NoInt /\ hmac_value = NoSeq
         /\ computer_value = NoInt /\ secret_key = NoInt
    /\ (pc = "exit1" /\ out = <<>>) => BadArgv

\* main has failed on a die of five faces.
C11_Witness ==
    /\ pc = "exit1"
    /\ Len(argv) >= 3
    /\ \E a \in 1..Len(argv) : Len(argv[a]) = 5
    /\ probability_matrix = <<>>

\* C12: generate_fair_random fails, returning no triple, for every
\* range_max < 0, and for every range_max >= 0 it returns a value in the
\* closed interval [0, range_max].
C12_RangeOfDraw ==
    pc \in {"raised", "generated"} =>
        /\ range_max < 0 =>
             /\ pc = "raised"
             /\ computer_value = NoInt /\ hmac_value = NoSeq
             /\ secret_key = NoInt
        /\ range_max >= 0 =>
             /\ pc = "generated"
             /\ computer_value >= 0 /\ computer_value <= range_max
             /\ secret_key \in Keys

\* The call with range_max = -1, the largest that fails, has raised.
C12_Witness ==
    /\ pc = "raised"
    /\ range_max = 0 - 1
    /\ hmac_value = NoSeq

\* C13: the first mover depends only on (computer_value + user_guess) mod 2
\* for values and guesses in {0, 1}: the user when it is 0, the computer
\* when it is 1; when determine_first_move has returned, turn is "user" or
\* "computer", and either outcome can be reached whatever the computer's
\* value is (by some guess) and whatever the guess is (by some value).
C13_FirstMoveIsModularSum ==
    /\ pc = "select_dice" =>
         /\ computer_value \in {0, 1} /\ user_value \in {0, 1}
         /\ turn \in {"user", "computer"}
         /\ turn = "user" <=> (computer_value + user_value) % 2 = 0
         /\ turn = "computer" <=> (computer_value + user_value) % 2 = 1
         /\ \A m \in {"user", "computer"} :
              \E v \in 0..FirstMoveRange : FirstMover(v, user_value) = m
    /\ pc = "first_input" =>
         \A m \in {"user", "computer"} : ENABLED (FirstMoveInput /\ turn' = m)

\* The computer drew 1 and the user guessed 1: the user moves first.
C13_Witness ==
    /\ pc = "select_dice"
    /\ computer_value = 1
    /\ user_value = 1
    /\ turn = "user"

\* The draws whose digest is out and whose key is not.
Outstanding ==
    { d \in CommittedDraws :
        /\ \E i \in 1..Len(out) : out[i] = Event("hmac", d)
        /\ \A i \in 1..Len(out) : out[i] # Event("reveal", d) }

\* C14: the committed draws (first move, then each throw) are strictly
\* sequential: a draw is revealed, and its outcome consumed, before the
\* digest of the next one is published, so at most one commitment is
\* outstanding at any time, and the outstanding one is that of the draw
\* whose input is being read.
C14_DrawsAreSequential ==
    /\ \A i, j \in 1..Len(out) :
         (j < i /\ out[i].ev = "hmac" /\ out[j].ev = "hmac") =>
            /\ out[j].draw # out[i].draw
            /\ \E k \in (j + 1)..(i - 1) : out[k] = Event("reveal", out[j].draw)
    /\ Cardinality(Outstanding) <= 1
    /\ Outstanding # {} =>
         \/ pc \in {"first_input", "play_input"} /\ Outstanding = {DrawRead}
         \/ pc = "exit0" /\ out[Len(out)].ev = "exit"
                         /\ Outstanding = {out[Len(out)].draw}
    /\ pc = "play_input" =>
         /\ turn \in {"user", "computer"}
         /\ plays = 1 => thrower \in {"user", "computer"}

\* The second throw is committed, the first move and the first throw are
\* revealed.
C14_Witness ==
    /\ pc = "play_input"
    /\ Outstanding = {"throw2"}
    /\ \E i, j \in 1..Len(out) :
         /\ i < j
         /\ out[i] = Event("reveal", "first")
         /\ out[j] = Event("reveal", "throw1")

\* The number of times the value and key of draw d were printed.
Reveals(d) == Cardinality({ i \in 1..Len(out) : out[i] = Event("reveal", d) })

Happened(e, d) == \E i \in 1..Len(out) : out[i] = Event(e, d)

\* C15: the key of a commitment is printed at most once: exactly once when
\* the draw completes (the user's value was accepted), not at all when the
\* user leaves the draw with 'X', and never again after further input.
C15_RevealedAtMostOnce ==
    \A d \in CommittedDraws :
       /\ Reveals(d) <= 1
       /\ Happened("accepted", d) <=> Reveals(d) = 1
       /\ Happened("exit", d) => Reveals(d) = 0

\* The user left at the second throw: two keys printed once, one never.
C15_Witness ==
    /\ pc = "exit0"
    /\ Happened("exit", "throw2")
    /\ Reveals("first") = 1
    /\ Reveals("throw1") = 1
    /\ Reveals("throw2") = 0
    /\ rejected > 0

\* The prompts of the three loops that read the user's line.
InputPrompts == {"first_input", "select_input", "play_input"}

\* The numbers the prompt under way accepts.
Offered ==
    IF pc = "first_input" THEN 0..FirstMoveRange
    ELSE IF pc = "select_input" THEN 0..(Len(dices) - 1)
    ELSE 0..ThrowRange

\* The number the prompt left by this step has read.
Entered == IF pc = "select_input" THEN user_index' ELSE user_value'

Other(player) == IF player = "computer" THEN "user" ELSE "computer"

\* C17: each player throws exactly once.  From the decision of the first
\* move to the first throw turn does not change, so the first call of
\* play_turn throws for the first mover; a throw is the throw of the holder
\* of turn, assigns that player's score from that player's own die and hands
\* turn to the other player, so the second call throws for the other one;
\* final_scores starts only after both throws.
C17_EachPlayerThrowsOnce ==
    [][/\ plays' # plays =>
            /\ pc = "play_input"
            /\ plays' = plays + 1
            /\ turn \in {"computer", "user"}
            /\ thrower' = turn
            /\ turn' = Other(turn)
            /\ plays = 1 => thrower' = Other(thrower)
            /\ IF turn = "computer"
               THEN /\ computer_score' = computer_dice[result' + 1]
                    /\ UNCHANGED user_score
               ELSE /\ user_score' = user_dice[result' + 1]
                    /\ UNCHANGED computer_score
            /\ UNCHANGED <<computer_dice, user_dice>>
       /\ plays' = plays =>
            /\ pc # "first_input" => turn' = turn
            /\ pc # "parsed" => UNCHANGED <<computer_score, user_score>>
       /\ pc' \in {"final_scores", "done"} <=> plays' = 2
       /\ pc' = "select_dice" => turn' \in {"computer", "user"}]_vars

\* A finished game the user opened: the user threw first, the computer last.
C17_Witness ==
    /\ pc = "done"
    /\ plays = 2
    /\ thrower = "computer"
    /\ turn = "user"
    /\ computer_score = computer_dice[result + 1]
    /\ user_score \in { user_dice[f] : f \in 1..Faces }
    /\ computer_score # user_score

\* The list of dice main was started with.
OriginalDice == ParseDiceConfigurations(argv).dice_configs

\* The position, in the original list, of the entry found at index idx of
\* the list that is left when position first is taken out (0-based).
PositionLeft(first, idx) == IF idx >= first THEN idx + 1 ELSE idx

ComputerPosition ==
    IF turn = "computer" THEN computer_index
    ELSE PositionLeft(user_index, computer_index)

UserPosition ==
    IF turn = "computer" THEN PositionLeft(computer_index, user_index)
    ELSE user_index

EventAt(e) == CHOOSE i \in 1..Len(out) : out[i] = Event(e, "pick")

\* C18: when select_dice has returned, the computer and the user hold two
\* different entries of the original list; the holder of the first move
\* picked first, and the second pick was an index into the dice left by the
\* first one.
C18_DifferentDice ==
    (pc = "play_turn" /\ plays = 0) =>
        /\ ComputerPosition \in 0..(Len(OriginalDice) - 1)
        /\ UserPosition \in 0..(Len(OriginalDice) - 1)
        /\ ComputerPosition # UserPosition
        /\ computer_dice = OriginalDice[ComputerPosition + 1]
        /\ user_dice = OriginalDice[UserPosition + 1]
        /\ Happened("computer_dice", "pick") /\ Happened("user_dice", "pick")
        /\ IF turn = "computer"
           THEN /\ EventAt("computer_dice") < EventAt("user_dice")
                /\ computer_index \in 0..(Len(OriginalDice) - 1)
                /\ user_index \in 0..(Len(OriginalDice) - 2)
           ELSE /\ EventAt("user_dice") < EventAt("computer_dice")
                /\ user_index \in 0..(Len(OriginalDice) - 1)
                /\ computer_index \in 0..(Len(OriginalDice) - 2)

\* Both picks were index 0, of different lists: the user took the first
\* entry of the original list and the computer the second.
C18_Witness ==
    /\ pc = "play_turn" /\ plays = 0
    /\ turn = "user"
    /\ user_index = 0 /\ computer_index = 0
    /\ user_dice = OriginalDice[1]
    /\ computer_dice = OriginalDice[2]
    /\ user_dice # computer_dice

\* C19: in a validated game every call of generate_fair_random has an
\* argument of at least 0, so none raises: main ends with status 1 only from
\* the parser, and no pick is undone by the handler of line 172.  Every index
\* select_dice uses is an index into the pool as it is when the index is used,
\* whichever side picks first.
C19_DrawsAndPicksInRange ==
    [][/\ range_max' # range_max =>
            /\ pc \in {"determine_first_move", "select_dice", "select_input",
                       "play_turn"}
            /\ range_max' >= 0
       /\ pc' = "exit1" => pc = "main"
       /\ (pc = "select_dice" /\ turn = "computer") =>
            /\ range_max' = Len(dices) - 1
            /\ computer_index' \in 0..(Len(dices) - 1)
            /\ computer_dice' = dices[computer_index' + 1]
            /\ Len(dices') = Len(dices) - 1
       /\ (pc = "select_input" /\ pc' = pc) => dices' = dices
       /\ (pc = "select_input" /\ pc' = "play_turn") =>
            /\ user_index' \in 0..(Len(dices) - 1)
            /\ user_dice' = dices[user_index' + 1]
            /\ turn = "computer" => dices' = dices
            /\ turn = "user" =>
                 /\ range_max' = Len(dices) - 2
                 /\ computer_index' \in 0..(Len(dices) - 2)
                 /\ Len(dices') = Len(dices) - 2]_vars

\* The user, moving first, took the last entry of the pool and the computer
\* then drew the largest index of the dice left.
C19_Witness ==
    /\ pc = "play_turn" /\ plays = 0
    /\ turn = "user"
    /\ user_index = Len(OriginalDice) - 1
    /\ range_max = Len(OriginalDice) - 2
    /\ computer_index = range_max
    /\ Len(dices) = Len(OriginalDice) - 2

\* C20: final_scores prints exactly one of three lines: the computer wins
\* exactly when computer_score > user_score, the user wins exactly when
\* user_score > computer_score, and it is a tie exactly when they are equal.
\* Nothing is announced before.
C20_WinnerIsGreaterScore ==
    IF pc = "done"
    THEN /\ announcement \in {"I win", "You win", "tie"}
         /\ announcement = "I win" <=> computer_score > user_score
         /\ announcement = "You win" <=> user_score > computer_score
         /\ announcement = "tie" <=> user_score = computer_score
    ELSE announcement = "none"

\* A finished game with two equal throws of two different dice.
C20_Witness ==
    /\ pc = "done"
    /\ announcement = "tie"
    /\ computer_score = user_score
    /\ computer_dice # user_dice
    /\ plays = 2

====
